---- MODULE Spec2Model ----
(***************************************************************************)
(* Model of csv_inference_processor.py: process_csv (the batch scheduler), *)
(* process_row (the per-record pipeline), download_image, request_url and  *)
(* map_category.                                                           *)
(*                                                                         *)
(* Python values.  A str is a sequence of tokens (a token is a character   *)
(* or an atomic run of non-blank characters), so that strip, urlparse,     *)
(* basename and str.format are computed, not assumed.  None is the         *)
(* reserved value PyNone.  A dict is a function whose DOMAIN is its keys.  *)
(* The int 0 is the token "0" (csv.DictWriter writes both as the text 0).  *)
(*                                                                         *)
(* Scheduling.  asyncio is cooperative: a task runs from one await that    *)
(* suspends to the next.  Every action of a task below is one such run.    *)
(* The suspension points of process_row are the semaphore acquire (only    *)
(* when no permit is free), session.get, response.read and                 *)
(* session.post/response.json (one round trip).                            *)
(*                                                                         *)
(* Entry points.  A behaviour is either a run of the script (__main__,     *)
(* then process_csv) or one direct evaluation of a pure part of it:        *)
(* map_category, or the artifact name of line 75 for two records.          *)
(***************************************************************************)
EXTENDS Integers, Sequences, FiniteSets, TLC

VARIABLES
    argc,         \* len(sys.argv)
    input_exists, \* os.path.exists(input_csv)
    exit_status,  \* exit status of the script, -1 while it runs
    call,         \* the direct evaluation of a pure part, if any
    fieldnames,   \* reader.fieldnames: the header of the input csv
    rows,         \* list(reader): the input records, in file order
    bpc,          \* position of process_csv
    retval,       \* what process_csv returned to its caller
    dir_exists,   \* whether TEMP_IMAGES_DIR exists
    files,        \* paths of the files present in TEMP_IMAGES_DIR
    output,       \* the output csv file (NoFile until written)
    results,      \* process_csv's local `results`
    sem_value,    \* free permits of the asyncio.Semaphore
    pc,           \* position of each process_row task
    result_row,   \* process_row's local result_row, per task
    response_json,\* process_row's local response_json, per task
    task_result,  \* value each finished task returned to gather
    downloaded_path, \* process_row's local downloaded_path, per task
    gets,         \* per task: the urls passed to session.get, in order
    posts,        \* per task: the <<url, path>> pairs passed to session.post
    answers       \* per task: how the network answered its requests

vars == <<argc, input_exists, exit_status, call, fieldnames, rows, bpc, retval, dir_exists, files, output, results,
          sem_value, pc, result_row, response_json, task_result,
          downloaded_path, gets, posts, answers>>

-----------------------------------------------------------------------------
(* Bounds and program constants *)

MaxRows == 3

\* direct evaluations: tokens per category, per base name, largest row_index
MaxCatLen == 2

MaxBaseLen == 2

MaxRowIndex == 22

MAX_CONCURRENT_REQUESTS == 2

-----------------------------------------------------------------------------
(* Python values *)

PyNone == <<"<None>">>

EmptyStr == <<>>

\* no output file on disk
NoFile == [no_file |-> <<>>]

\* a dict-valued local that is not bound yet
NoValue == [no_value |-> <<>>]

\* a str-valued local that is not bound yet; process_csv has not returned
Unbound == <<"<unbound>">>

Whitespace == {" "}

\* dict.get(key, default)
Get(d, key, default) == IF key \in DOMAIN d THEN d[key] ELSE default

\* d[key] = value
Put(d, key, value) ==
    [k \in DOMAIN d \cup {key} |-> IF k = key THEN value ELSE d[k]]

RECURSIVE LStrip(_)
LStrip(s) ==
    IF s # <<>> /\ Head(s) \in Whitespace THEN LStrip(Tail(s)) ELSE s

RECURSIVE RStrip(_)
RStrip(s) ==
    IF s # <<>> /\ s[Len(s)] \in Whitespace
    THEN RStrip(SubSeq(s, 1, Len(s) - 1))
    ELSE s

\* str.strip()
Strip(s) == RStrip(LStrip(s))

\* str(n) for a non-negative int
RECURSIVE Str(_)
Str(n) ==
    LET d == <<"0", "1", "2", "3", "4", "5", "6", "7", "8", "9">>
    IN  IF n < 10 THEN <<d[n + 1]>> ELSE Str(n \div 10) \o <<d[(n % 10) + 1]>>

\* positions of token c in s
Positions(s, c) == {k \in 1..Len(s) : s[k] = c}

Min(S) == CHOOSE x \in S : \A y \in S : x <= y

Max(S) == CHOOSE x \in S : \A y \in S : x >= y

\* s[from:] cut before the first token of `stops`
UpTo(s, from, stops) ==
    LET hits == {k \in from..Len(s) : s[k] \in stops}
    IN  IF hits = {} THEN SubSeq(s, from, Len(s))
        ELSE SubSeq(s, from, Min(hits) - 1)

-----------------------------------------------------------------------------
(* map_category *)

\* faulty variant of map_category: only the rewrite its docstring names
map_category_p09_only(category) ==
    IF category = <<"LV_P09">> THEN <<"LV_P05">> ELSE category

map_category(category) ==
    IF category = <<"LV_P04_case4">> THEN <<"LV_P04_m2">>
    ELSE IF category = <<"LV_P09">> THEN <<"LV_P05">>
    ELSE category

-----------------------------------------------------------------------------
(* urllib.parse.urlparse and os.path.basename, as process_row uses them *)

\* index of the first token after "scheme:", or 1 when there is no scheme
AfterScheme(url) ==
    IF Len(url) >= 2 /\ url[1] \notin {":", "/", "?", "#", "["} /\ url[2] = ":"
    THEN 3 ELSE 1

HasNetloc(url) ==
    LET a == AfterScheme(url)
    IN  Len(url) >= a + 1 /\ url[a] = "/" /\ url[a + 1] = "/"

Netloc(url) ==
    IF HasNetloc(url) THEN UpTo(url, AfterScheme(url) + 2, {"/", "?", "#"})
    ELSE <<>>

\* urlsplit raises ValueError("Invalid IPv6 URL") on an unbalanced bracket
UrlParseRaises(url) ==
    LET n == Netloc(url)
    IN  (Positions(n, "[") # {}) # (Positions(n, "]") # {})

\* urlparse(url).path
UrlPath(url) ==
    LET a == AfterScheme(url)
        start == IF HasNetloc(url) THEN a + 2 + Len(Netloc(url)) ELSE a
    IN  UpTo(url, start, {"?", "#"})

\* os.path.basename
Basename(path) ==
    LET slashes == Positions(path, "/")
    IN  IF slashes = {} THEN path
        ELSE SubSeq(path, Max(slashes) + 1, Len(path))

\* faulty variant of image_filename: no "_" between the index and the base name
image_filename_no_separator(row_index, link_img) ==
    <<"temp_images", "/", "image_">> \o Str(row_index)
        \o Basename(UrlPath(link_img))

\* f"temp_images/image_{row_index}_{os.path.basename(urlparse(link_img).path)}"
image_filename(row_index, link_img) ==
    <<"temp_images", "/", "image_">> \o Str(row_index) \o <<"_">>
        \o Basename(UrlPath(link_img))

\* url_localhost_template.format(category=mapped_category)
api_url(mapped_category) ==
    <<"http://localhost:8000/v2/check/?part=">> \o mapped_category
        \o <<"&category=bag-lv&has_probs=true&heatmap=false&iqa_check=false">>

-----------------------------------------------------------------------------
(* The inputs: the csv file read by csv.DictReader *)

AllFields == {"id", "category", "link_img"}

Required == {"category", "link_img"}

\* headers with and without the required columns
Headers == {AllFields, {"id", "link_img"}, {"id", "category"}}

GoodUrl == <<"http", ":", "/", "/", "host", "/", "dir", "/", "x_1.jpg">>

\* urlparse raises ValueError on it
BadUrl == <<"http", ":", "/", "/", "[", "host", "/", "x_1.jpg">>

\* Rows as DictReader yields them under the full header.  A row shorter than
\* the header has None (restval) for the cells it lacks.  No row is longer
\* than the header.
FullRows ==
    { [id |-> <<"a">>, category |-> <<" ", "LV_P09">>,
       link_img |-> GoodUrl \o <<" ">>],
      [id |-> <<"c">>, category |-> <<" ">>, link_img |-> GoodUrl],
      [id |-> <<"d">>, category |-> <<"LV_P09">>, link_img |-> EmptyStr],
      [id |-> <<"e">>, category |-> <<"LV_P09">>, link_img |-> PyNone],
      [id |-> <<"f">>, category |-> <<"LV_P09">>, link_img |-> BadUrl] }

RowChoices(header) == {[f \in header |-> r[f]] : r \in FullRows}

Inputs(header) == UNION {[1..n -> RowChoices(header)] : n \in 0..MaxRows}

Tasks == 1..Len(rows)

-----------------------------------------------------------------------------
(* The network, as the program sees it *)

HttpStatuses == {200, 404}

\* a body that parses to a value that is no dict (a list)
JsonArray == [kind |-> "array", items |-> NoValue]

JsonObject(d) == [kind |-> "object", items |-> d]

\* bodies the classification endpoint may answer with, parsed by response.json()
ServiceResponses ==
    { JsonArray,
      JsonObject([result |-> <<"failed">>, label |-> <<"ok">>]),
      JsonObject([result |-> <<"success">>, label |-> <<"ok">>, real_prob |-> <<"0.9">>]),
      JsonObject([real_prob |-> <<"0.9">>]),
      JsonObject([label |-> <<"ok">>]) }

\* what request_url returns when anything in its try block raises
RequestUrlFailed == JsonObject([result |-> <<"failed">>, error |-> <<"exc">>])

-----------------------------------------------------------------------------
(* asyncio.Semaphore, as `async with semaphore` uses it *)

\* faulty variant of locked: acquire never finds the semaphore locked
locked_never == FALSE

\* Semaphore.locked(): no permit is free
\* faulty variant of locked: the gate only closes below zero
locked_below_zero == sem_value < 0

locked == sem_value = 0

\* faulty variant of Release: a release after the block, skipped when it raises
Release_not_on_raise(value, how) == IF how = "raise" THEN value ELSE value + 1

\* __aexit__ releases the permit however the block is left
Release(value, how) == value + 1

HoldsGate(i) == pc[i] \in {"get", "read", "post"}

Holders == {i \in Tasks : HoldsGate(i)}

-----------------------------------------------------------------------------
(* Direct evaluations of the pure parts *)

RECURSIVE SeqsUpTo(_, _)
\* the sequences over S of length at most n
SeqsUpTo(S, n) ==
    IF n = 0 THEN {<<>>}
    ELSE SeqsUpTo(S, n - 1)
         \cup {Append(q, x) : q \in {r \in SeqsUpTo(S, n - 1) : Len(r) = n - 1},
                              x \in S}

NoCall == [fn |-> "none"]

\* arguments of map_category: the rewritten codes, their targets, another
\* code, and strings that only contain them
CategoryArgs ==
    SeqsUpTo({"LV_P09", "LV_P04_case4", "LV_P05", "LV_P04_m2", "LV_P01", " "},
             MaxCatLen)

\* base names of remote files, character by character: digits and underscores
BaseNames == SeqsUpTo({"1", "_"}, MaxBaseLen)

LinkTo(base) == <<"http", ":", "/", "/", "host", "/", "d", "/">> \o base

MapCategoryCalls ==
    {[fn |-> "map_category", category |-> c, done |-> FALSE, ret |-> Unbound] :
        c \in CategoryArgs}

\* two records of one batch (row_index i < j) and their link_img values
ArtifactNameCalls ==
    {[fn |-> "image_filename", i |-> p[1], link_i |-> LinkTo(a),
      j |-> p[2], link_j |-> LinkTo(b), done |-> FALSE,
      ret |-> <<Unbound, Unbound>>] :
        p \in {q \in (2..MaxRowIndex) \X (2..MaxRowIndex) : q[1] < q[2]},
        a \in BaseNames, b \in BaseNames}

CallMapCategory ==
    /\ call.fn = "map_category"
    /\ ~call.done
    /\ call' = [call EXCEPT !.done = TRUE, !.ret = map_category(call.category)]
    /\ UNCHANGED <<argc, input_exists, exit_status>>
    /\ UNCHANGED <<fieldnames, rows, bpc, retval, dir_exists, files, output,
                   results, sem_value, pc, result_row, response_json,
                   task_result, downloaded_path, gets, posts, answers>>

CallImageFilename ==
    /\ call.fn = "image_filename"
    /\ ~call.done
    /\ call' = [call EXCEPT !.done = TRUE,
                            !.ret = <<image_filename(call.i, call.link_i),
                                      image_filename(call.j, call.link_j)>>]
    /\ UNCHANGED <<argc, input_exists, exit_status>>
    /\ UNCHANGED <<fieldnames, rows, bpc, retval, dir_exists, files, output,
                   results, sem_value, pc, result_row, response_json,
                   task_result, downloaded_path, gets, posts, answers>>

-----------------------------------------------------------------------------
(* Initial states *)

NoAnswer == [get |-> "none", status |-> 0, read |-> "none", post |-> "none"]

\* nothing has run yet
Fresh ==
    /\ exit_status = -1
    /\ retval = Unbound
    /\ dir_exists = FALSE
    /\ files = {}
    /\ output = NoFile
    /\ results = <<>>
    /\ sem_value = 0
    /\ pc = [i \in Tasks |-> "none"]
    /\ result_row = [i \in Tasks |-> NoValue]
    /\ response_json = [i \in Tasks |-> NoValue]
    /\ task_result = [i \in Tasks |-> NoValue]
    /\ downloaded_path = [i \in Tasks |-> Unbound]
    /\ gets = [i \in Tasks |-> <<>>]
    /\ posts = [i \in Tasks |-> <<>>]
    /\ answers = [i \in Tasks |-> NoAnswer]

\* the script is started: its arguments, and the input file if there is one
InitRun ==
    /\ argc \in {2, 3}
    /\ input_exists \in BOOLEAN
    /\ fieldnames \in Headers
    /\ rows \in Inputs(fieldnames)
    /\ (argc # 3 \/ ~input_exists) => (fieldnames = AllFields /\ rows = <<>>)
    /\ bpc = "main"
    /\ call = NoCall
    /\ Fresh

\* a pure part is evaluated on its own
InitCall ==
    /\ call \in MapCategoryCalls \cup ArtifactNameCalls
    /\ argc = 3
    /\ input_exists = TRUE
    /\ fieldnames = AllFields
    /\ rows = <<>>
    /\ bpc = "not_run"
    /\ Fresh

Init == InitRun \/ InitCall

-----------------------------------------------------------------------------
(* process_row: the per-record pipeline.  Task i runs rows[i]; its          *)
(* row_index is (i - 1) + 2, the csv line of the record.                    *)

RowIndex(i) == (i - 1) + 2

\* faulty variant of Mark: a new dict that holds the two markers only
Mark_only(row, marker) ==
    [f \in {"new_pred_label", "new_real_prob"} |-> marker]

\* result_row['new_pred_label'] = marker; result_row['new_real_prob'] = marker
Mark(row, marker) ==
    Put(Put(row, "new_pred_label", marker), "new_real_prob", marker)

\* the stripped link_img of a record that passed validation
LinkImg(i) == Strip(rows[i]["link_img"])

\* the stripped category of a record that passed validation
Category(i) == Strip(rows[i]["category"])

ImageFilename(i) == image_filename(RowIndex(i), LinkImg(i))

\* faulty variant of download_image_status: the test on the status is inverted
download_image_not_200(status, filename) ==
    IF status # 200 THEN filename ELSE PyNone

\* faulty variant of download_image_status: the status is not looked at
download_image_any_status(status, filename) == filename

\* download_image's return value for an answered request:
\* the filename on status 200, None otherwise
download_image_status(status, filename) ==
    IF status = 200 THEN filename ELSE PyNone

\* what request_url returns: the parsed body, or its own failed dict when
\* the open, the post or the parse raised
request_url(raised, body) == IF raised THEN RequestUrlFailed ELSE body

\* faulty variant of ClassifyMarkers: no defaults for label and real_prob, and the
\* service's own failure is not looked at
ClassifyMarkers_unchecked(row, json) ==
    IF json.kind # "object" THEN Mark(row, <<"error">>)
    ELSE Put(Put(row, "new_pred_label", Get(json.items, "label", PyNone)),
             "new_real_prob", Get(json.items, "real_prob", PyNone))

\* lines 88-100: the markers written from the value request_url returned;
\* .get on a value that is no dict raises, which the except turns into "error"
ClassifyMarkers(row, json) ==
    IF json.kind # "object" THEN Mark(row, <<"error">>)
    ELSE IF Get(json.items, "result", PyNone) = <<"failed">>
         THEN Mark(row, <<"failed">>)
         ELSE Put(Put(row, "new_pred_label",
                      Get(json.items, "label", <<"unknown">>)),
                  "new_real_prob", Get(json.items, "real_prob", <<"0">>))

\* the task returns `value`; `free` permits are free while it holds its own,
\* which leaving the `async with` block releases
TaskReturns(i, value, free) ==
    /\ pc' = [pc EXCEPT ![i] = "done"]
    /\ result_row' = [result_row EXCEPT ![i] = value]
    /\ task_result' = [task_result EXCEPT ![i] = value]
    /\ sem_value' = Release(free, "return")

\* an exception leaves process_row through the `async with` block
TaskRaises(i, free) ==
    /\ pc' = [pc EXCEPT ![i] = "raised"]
    /\ sem_value' = Release(free, "raise")
    /\ UNCHANGED task_result

\* Lines 56-76, run with the permit just taken: validation, map_category,
\* the artifact's name, up to the await of session.get.  None has no strip
\* (AttributeError) and urlparse may raise ValueError; neither is caught.
Enter(i, free) ==
    LET row == rows[i]
        c0 == Get(row, "category", EmptyStr)
        l0 == Get(row, "link_img", EmptyStr)
    IN  IF c0 = PyNone \/ l0 = PyNone
        THEN /\ TaskRaises(i, free)
             /\ UNCHANGED <<result_row, gets>>
        ELSE IF Strip(c0) = EmptyStr \/ Strip(l0) = EmptyStr
        THEN /\ TaskReturns(i, Mark(row, <<"missing_data">>), free)
             /\ UNCHANGED gets
        ELSE IF UrlParseRaises(Strip(l0))
        THEN /\ TaskRaises(i, free)
             /\ result_row' = [result_row EXCEPT ![i] = row]
             /\ UNCHANGED gets
        ELSE /\ pc' = [pc EXCEPT ![i] = "get"]
             /\ result_row' = [result_row EXCEPT ![i] = row]
             /\ gets' = [gets EXCEPT ![i] = Append(@, Strip(l0))]
             /\ sem_value' = free
             /\ UNCHANGED task_result

\* The task starts: `async with semaphore` takes a permit and goes on when
\* one is free, and suspends otherwise.
Start(i) ==
    /\ bpc = "gather"
    /\ pc[i] = "created"
    /\ IF locked
       THEN /\ pc' = [pc EXCEPT ![i] = "waiting"]
            /\ UNCHANGED <<sem_value, result_row, task_result, gets>>
       ELSE Enter(i, sem_value - 1)
    /\ UNCHANGED <<argc, input_exists, exit_status, call>>
    /\ UNCHANGED <<fieldnames, rows, bpc, retval, dir_exists, files, output,
                   results, response_json, downloaded_path, posts, answers>>

\* A suspended acquire is woken once a permit is free.
Wake(i) ==
    /\ bpc = "gather"
    /\ pc[i] = "waiting"
    /\ ~locked
    /\ Enter(i, sem_value - 1)
    /\ UNCHANGED <<argc, input_exists, exit_status, call>>
    /\ UNCHANGED <<fieldnames, rows, bpc, retval, dir_exists, files, output,
                   results, response_json, downloaded_path, posts, answers>>

\* session.get is answered with a status, or raises.  On 200 download_image
\* opens the artifact for writing (which creates it) and awaits
\* response.read(); otherwise it returns None and process_row returns the
\* download_failed record.
GetAnswered(i) ==
    /\ bpc = "gather"
    /\ pc[i] = "get"
    /\ \E raised \in BOOLEAN, status \in HttpStatuses :
         /\ answers' = [answers EXCEPT ![i] =
                          IF raised THEN [@ EXCEPT !.get = "raised"]
                          ELSE [@ EXCEPT !.get = "status", !.status = status]]
         /\ IF ~raised /\ download_image_status(status, ImageFilename(i)) # PyNone
            THEN /\ pc' = [pc EXCEPT ![i] = "read"]
                 /\ files' = files \cup {ImageFilename(i)}
                 /\ UNCHANGED <<sem_value, result_row, task_result,
                                downloaded_path>>
            ELSE /\ downloaded_path' = [downloaded_path EXCEPT ![i] = PyNone]
                 /\ TaskReturns(i, Mark(result_row[i], <<"download_failed">>),
                                sem_value)
                 /\ UNCHANGED files
    /\ UNCHANGED <<argc, input_exists, exit_status, call>>
    /\ UNCHANGED <<fieldnames, rows, bpc, retval, dir_exists, output, results,
                   response_json, gets, posts>>

\* response.read() returns the body, or raises.  With the body written
\* download_image returns the filename and process_row calls request_url,
\* which opens the artifact and awaits session.post.  When read raises, the
\* except of download_image returns None: the file that open created stays.
ReadAnswered(i) ==
    /\ bpc = "gather"
    /\ pc[i] = "read"
    /\ \E raised \in BOOLEAN :
         /\ answers' = [answers EXCEPT
                          ![i].read = IF raised THEN "raised" ELSE "ok"]
         /\ IF ~raised
            THEN /\ downloaded_path' =
                        [downloaded_path EXCEPT ![i] = ImageFilename(i)]
                 /\ pc' = [pc EXCEPT ![i] = "post"]
                 /\ posts' = [posts EXCEPT
                       ![i] = Append(@, <<api_url(map_category(Category(i))),
                                          ImageFilename(i)>>)]
                 /\ UNCHANGED <<sem_value, result_row, task_result>>
            ELSE /\ downloaded_path' = [downloaded_path EXCEPT ![i] = PyNone]
                 /\ TaskReturns(i, Mark(result_row[i], <<"download_failed">>),
                                sem_value)
                 /\ UNCHANGED posts
    /\ UNCHANGED <<argc, input_exists, exit_status, call>>
    /\ UNCHANGED <<fieldnames, rows, bpc, retval, dir_exists, files, output,
                   results, response_json, gets>>

\* The post is answered with a body that response.json() parses, or the
\* round trip raises.  process_row writes the markers from what request_url
\* returned, removes the artifact and returns.
PostAnswered(i) ==
    /\ bpc = "gather"
    /\ pc[i] = "post"
    /\ \E raised \in BOOLEAN, body \in ServiceResponses :
         /\ answers' = [answers EXCEPT
                          ![i].post = IF raised THEN "raised" ELSE "json"]
         /\ response_json' =
                [response_json EXCEPT ![i] = request_url(raised, body)]
         /\ TaskReturns(i, ClassifyMarkers(result_row[i],
                                           request_url(raised, body)),
                        sem_value)
    /\ files' = files \ {downloaded_path[i]}
    /\ UNCHANGED <<argc, input_exists, exit_status, call>>
    /\ UNCHANGED <<fieldnames, rows, bpc, retval, dir_exists, output, results,
                   downloaded_path, gets, posts>>

-----------------------------------------------------------------------------
(* __main__: the command surface *)

\* lines 171-183: a wrong argument count and an input path that does not
\* exist end the script with status 1; otherwise process_csv is run
MainChecks ==
    /\ bpc = "main"
    /\ IF argc # 3 \/ ~input_exists
       THEN bpc' = "exited" /\ exit_status' = 1
       ELSE bpc' = "start" /\ UNCHANGED exit_status
    /\ UNCHANGED <<argc, input_exists, call>>
    /\ UNCHANGED <<fieldnames, rows, retval, dir_exists, files, output,
                   results, sem_value, pc, result_row, response_json,
                   task_result, downloaded_path, gets, posts, answers>>

\* the status the script ends with once asyncio.run is over: 0 when
\* process_csv returned, 1 when an exception left it
StatusAfter(position) == IF position = "returned" THEN 0 ELSE 1

\* line 183 is the last statement: asyncio.run returns what process_csv
\* returned, or re-raises what left it
MainEnds ==
    /\ bpc \in {"returned", "raised"}
    /\ exit_status = -1
    /\ exit_status' = StatusAfter(bpc)
    /\ UNCHANGED <<argc, input_exists, call>>
    /\ UNCHANGED <<fieldnames, rows, bpc, retval, dir_exists, files, output,
                   results, sem_value, pc, result_row, response_json,
                   task_result, downloaded_path, gets, posts, answers>>

-----------------------------------------------------------------------------
(* process_csv: the batch scheduler *)

\* os.makedirs(TEMP_IMAGES_DIR, exist_ok=True)
MakeDirs ==
    /\ bpc = "start"
    /\ dir_exists' = TRUE
    /\ bpc' = "read"
    /\ UNCHANGED <<argc, input_exists, exit_status, call>>
    /\ UNCHANGED <<fieldnames, rows, retval, files, output, results, sem_value,
                   pc, result_row, response_json, task_result,
                   downloaded_path, gets, posts, answers>>

\* faulty variant of MissingColumn: `and` in place of `or`
MissingColumn_both == "category" \notin fieldnames /\ "link_img" \notin fieldnames

\* line 127
MissingColumn == "category" \notin fieldnames \/ "link_img" \notin fieldnames

\* the bare `return` of line 124 (no rows); only the line printed before it
\* tells it from the return of line 129
ReturnNoRows == PyNone

\* the bare `return` of line 129 (a required column is missing)
ReturnMissingColumn == PyNone

\* Lines 118-146: the rows are read; an empty file and a header without a
\* required column return at once; otherwise the semaphore and one task per
\* row are created and process_csv awaits gather.
ReadCsv ==
    /\ bpc = "read"
    /\ IF rows = <<>>
       THEN /\ bpc' = "returned"
            /\ retval' = ReturnNoRows
            /\ UNCHANGED <<sem_value, pc>>
       ELSE IF MissingColumn
       THEN /\ bpc' = "returned"
            /\ retval' = ReturnMissingColumn
            /\ UNCHANGED <<sem_value, pc>>
       ELSE /\ bpc' = "gather"
            /\ sem_value' = MAX_CONCURRENT_REQUESTS
            /\ pc' = [i \in Tasks |-> "created"]
            /\ UNCHANGED retval
    /\ UNCHANGED <<argc, input_exists, exit_status, call>>
    /\ UNCHANGED <<fieldnames, rows, dir_exists, files, output, results,
                   result_row, response_json, task_result, downloaded_path,
                   gets, posts, answers>>

\* gather returns once every task has returned: the values in task order
GatherReturns ==
    /\ bpc = "gather"
    /\ \A i \in Tasks : pc[i] = "done"
    /\ results' = [i \in Tasks |-> task_result[i]]
    /\ bpc' = "write"
    /\ UNCHANGED <<argc, input_exists, exit_status, call>>
    /\ UNCHANGED <<fieldnames, rows, retval, dir_exists, files, output,
                   sem_value, pc, result_row, response_json, task_result,
                   downloaded_path, gets, posts, answers>>

\* a task that has not finished when the event loop is shut down is cancelled:
\* CancelledError is thrown at its await and leaves the `async with` block
Cancelled(state) ==
    IF state \in {"created", "waiting", "get", "read", "post"}
    THEN "cancelled" ELSE state

\* gather raises the exception of a task that raised.  It leaves process_csv
\* (nothing is written, the directory is not removed) and asyncio.run cancels
\* the tasks still pending, whose permits are released.
GatherRaises ==
    /\ bpc = "gather"
    /\ \E i \in Tasks : pc[i] = "raised"
    /\ bpc' = "raised"
    /\ pc' = [i \in Tasks |-> Cancelled(pc[i])]
    /\ sem_value' = sem_value + Cardinality(Holders)
    /\ UNCHANGED <<argc, input_exists, exit_status, call>>
    /\ UNCHANGED <<fieldnames, rows, retval, dir_exists, files, output, results,
                   result_row, response_json, task_result, downloaded_path,
                   gets, posts, answers>>

\* lines 149-156: the output csv, its header taken from the first result
WriteOutput ==
    /\ bpc = "write"
    /\ IF results # <<>>
       THEN output' = [fieldnames |-> DOMAIN results[1], rows |-> results]
       ELSE UNCHANGED output
    /\ bpc' = "rmdir"
    /\ UNCHANGED <<argc, input_exists, exit_status, call>>
    /\ UNCHANGED <<fieldnames, rows, retval, dir_exists, files, results,
                   sem_value, pc, result_row, response_json, task_result,
                   downloaded_path, gets, posts, answers>>

\* lines 161-165: os.rmdir fails on a directory that is not empty, which is
\* ignored; then process_csv returns None
RemoveTempDir ==
    /\ bpc = "rmdir"
    /\ dir_exists' = (dir_exists /\ files # {})
    /\ retval' = PyNone
    /\ bpc' = "returned"
    /\ UNCHANGED <<argc, input_exists, exit_status, call>>
    /\ UNCHANGED <<fieldnames, rows, files, output, results, sem_value, pc,
                   result_row, response_json, task_result, downloaded_path,
                   gets, posts, answers>>

-----------------------------------------------------------------------------

Next ==
    \/ CallMapCategory
    \/ CallImageFilename
    \/ MainChecks
    \/ MainEnds
    \/ MakeDirs
    \/ ReadCsv
    \/ \E i \in Tasks : Start(i)
    \/ \E i \in Tasks : Wake(i)
    \/ \E i \in Tasks : GetAnswered(i)
    \/ \E i \in Tasks : ReadAnswered(i)
    \/ \E i \in Tasks : PostAnswered(i)
    \/ GatherReturns
    \/ GatherRaises
    \/ WriteOutput
    \/ RemoveTempDir

Spec == Init /\ [][Next]_vars

-----------------------------------------------------------------------------
(* Claims *)

Finished(i) == pc[i] \in {"done", "raised", "cancelled"}

\* both new fields of a returned record hold `marker`
HasMarkers(row, marker) ==
    /\ Get(row, "new_pred_label", PyNone) = marker
    /\ Get(row, "new_real_prob", PyNone) = marker

\* gather is over: process_csv went on, or was left by an exception
BatchOver == bpc \in {"write", "rmdir", "returned", "raised"}

\* C1: in every reachable state, at most MAX_CONCURRENT_REQUESTS pipelines
\* hold the concurrency gate, that is, are between taking a permit and
\* leaving the `async with` block: in their download or classify step.
C1_AtMostLimitHoldGate ==
    /\ MAX_CONCURRENT_REQUESTS - sem_value <= MAX_CONCURRENT_REQUESTS
    /\ Cardinality(Holders) <= MAX_CONCURRENT_REQUESTS

\* the gate is full while another pipeline waits for a permit
C1_Witness ==
    /\ Cardinality(Holders) = MAX_CONCURRENT_REQUESTS
    /\ \E i \in Tasks : pc[i] = "waiting"

\* C2: for every non-empty input with the required columns, once the batch
\* is over the collected results have one entry per input record, and
\* results[i] is the record task i returned, built from rows[i].
C2_ResultsMatchInput ==
    (rows # <<>> /\ ~MissingColumn /\ BatchOver) =>
        /\ Len(results) = Len(rows)
        /\ \A i \in Tasks :
              /\ results[i] = task_result[i]
              /\ \A f \in DOMAIN rows[i] : results[i][f] = rows[i][f]

\* what does hold: the results gather returns are index-addressed
ResultsInTaskOrder ==
    (bpc \in {"write", "rmdir"} \/ (bpc = "returned" /\ output # NoFile)) =>
        /\ Len(results) = Len(rows)
        /\ \A i \in Tasks :
              /\ results[i] = task_result[i]
              /\ \A f \in DOMAIN rows[i] : results[i][f] = rows[i][f]

\* C3: no exception leaves process_row, whatever the record (a row shorter
\* than the header, a link_img that urlparse rejects), so no record's
\* failure aborts the batch.
C3_NoExceptionEscapes ==
    /\ \A i \in Tasks : pc[i] # "raised"
    /\ bpc # "raised"

\* C4: when a pipeline has returned, on every path, the artifact file it
\* created does not exist on disk.
C4_NoArtifactAfterReturn ==
    \A i \in Tasks :
        (pc[i] = "done" /\ gets[i] # <<>>) => ImageFilename(i) \notin files

\* C5: a record whose category or link_img is missing (None) or empty ends
\* with missing_data in both new fields, and neither a download nor a
\* classification request is made for it.
C5_MissingDataMarked ==
    \A i \in Tasks :
        (/\ pc[i] \in {"done", "raised"}
         /\ \E f \in Required : rows[i][f] = PyNone \/ rows[i][f] = EmptyStr)
        => /\ HasMarkers(task_result[i], <<"missing_data">>)
           /\ gets[i] = <<>>
           /\ posts[i] = <<>>

\* the image retrieval of task i failed: by status, or by an exception
\* before or while the body was read
RetrievalFailed(i) ==
    \/ answers[i].get = "raised"
    \/ answers[i].get = "status" /\ answers[i].status # 200
    \/ answers[i].read = "raised"

\* C6: a valid record whose image retrieval failed, for any reason, ends
\* with download_failed in both new fields, and no classification request
\* is made for it.
C6_DownloadFailedMarked ==
    \A i \in Tasks :
        RetrievalFailed(i) =>
            /\ pc[i] = "done"
            /\ HasMarkers(task_result[i], <<"download_failed">>)
            /\ posts[i] = <<>>
            /\ answers[i].post = "none"

\* one retrieval rejected by status and another failed by an exception
C6_Witness ==
    \E i, j \in Tasks :
        /\ pc[i] = "done" /\ answers[i].get = "status" /\ answers[i].status = 404
        /\ pc[j] = "done" /\ answers[j].get = "raised"
        /\ HasMarkers(task_result[i], <<"download_failed">>)
        /\ HasMarkers(task_result[j], <<"download_failed">>)

\* C7: when the classification round trip raises (the artifact cannot be
\* opened, the post cannot be sent, the body is no JSON), the pipeline
\* writes "error" to both new fields, not "failed".
C7_TransportFailureMarkedError ==
    \A i \in Tasks :
        (pc[i] = "done" /\ answers[i].post = "raised")
        => HasMarkers(task_result[i], <<"error">>)

\* C8: for every JSON object the endpoint answered with: when its result is
\* "failed" both new fields are "failed"; otherwise new_pred_label is its
\* label, or "unknown" without one, and new_real_prob is its real_prob, or
\* 0 without one.
C8_ResponseToMarkers ==
    \A i \in Tasks :
        (/\ pc[i] = "done"
         /\ answers[i].post = "json"
         /\ response_json[i].kind = "object")
        => LET o == response_json[i].items
               r == task_result[i]
           IN  IF "result" \in DOMAIN o /\ o["result"] = <<"failed">>
               THEN HasMarkers(r, <<"failed">>)
               ELSE /\ r["new_pred_label"] =
                         (IF "label" \in DOMAIN o THEN o["label"]
                          ELSE <<"unknown">>)
                    /\ r["new_real_prob"] =
                         (IF "real_prob" \in DOMAIN o THEN o["real_prob"]
                          ELSE <<"0">>)

\* an answer without a label, and one where the service reports failure
C8_Witness ==
    \E i, j \in Tasks :
        /\ pc[i] = "done" /\ answers[i].post = "json"
        /\ response_json[i].kind = "object"
        /\ DOMAIN response_json[i].items = {"real_prob"}
        /\ task_result[i]["new_pred_label"] = <<"unknown">>
        /\ pc[j] = "done" /\ answers[j].post = "json"
        /\ response_json[j].kind = "object"
        /\ "result" \in DOMAIN response_json[j].items
        /\ HasMarkers(task_result[j], <<"failed">>)

\* C9: every permit taken is released on every way out of the pipeline
\* (missing data, download failed, normal return, an exception): the free
\* permits are always the limit less the pipelines inside the gate, and all
\* MAX_CONCURRENT_REQUESTS are free once every pipeline has finished.
C9_PermitsRestored ==
    (bpc \notin {"main", "exited", "start", "read"} /\ rows # <<>>
     /\ ~MissingColumn) =>
        /\ sem_value = MAX_CONCURRENT_REQUESTS - Cardinality(Holders)
        /\ (\A i \in Tasks : Finished(i))
               => sem_value = MAX_CONCURRENT_REQUESTS

\* every way out was taken in one batch, and every pipeline has finished
C9_Witness ==
    /\ \A i \in Tasks : Finished(i)
    /\ \E i \in Tasks : pc[i] = "raised"
    /\ \E i \in Tasks : pc[i] = "done" /\ posts[i] # <<>>
    /\ \E i \in Tasks : pc[i] = "done" /\ RetrievalFailed(i)
    /\ sem_value = MAX_CONCURRENT_REQUESTS

\* C10: on an input without records process_csv starts no pipeline, makes no
\* request, writes no output file, and what it hands back to its caller
\* differs from what it hands back when a required column is missing.
C10_EmptyInputDistinctNoOp ==
    (bpc = "returned" /\ rows = <<>>) =>
        /\ \A i \in DOMAIN pc : pc[i] = "none"
        /\ \A i \in DOMAIN gets : gets[i] = <<>> /\ posts[i] = <<>>
        /\ output = NoFile
        /\ retval # ReturnMissingColumn

\* C11: when the header lacks the category or the link_img column, this is
\* found before any pipeline is created: in no state of such a run has a
\* pipeline been launched, a download or classification request been made,
\* or an output file (complete or partial) been written.
C11_MissingColumnStopsBatch ==
    ~(Required \subseteq fieldnames) =>
        /\ \A i \in Tasks : pc[i] = "none" /\ gets[i] = <<>> /\ posts[i] = <<>>
        /\ files = {}
        /\ output = NoFile

\* process_csv has returned on an input with records and no category column
C11_Witness ==
    /\ bpc = "returned"
    /\ "category" \notin fieldnames
    /\ rows # <<>>
    /\ output = NoFile

\* C12: the script ends with a non-zero exit status whenever the input lacks
\* a required column, as it does when an argument is missing or the input
\* path does not exist; process_csv is not run on wrong arguments.
C12_NonZeroExitOnBadInput ==
    /\ (exit_status # -1
        /\ (argc # 3 \/ ~input_exists \/ ~(Required \subseteq fieldnames)))
       => exit_status # 0
    /\ (argc # 3 \/ ~input_exists) => bpc \in {"main", "exited"}

\* the code the claim expects for a category
C13_Target(c) ==
    CASE c = <<"LV_P09">> -> <<"LV_P05">>
      [] c = <<"LV_P04_case4">> -> <<"LV_P04_m2">>
      [] OTHER -> c

NewFields == {"new_pred_label", "new_real_prob"}

\* C14: whatever terminal state a record's pipeline returned in, the record
\* it returned holds every field of the input record with the input's value,
\* holds new_pred_label and new_real_prob and nothing else, and the input
\* record has not been given the new fields.
C14_AugmentedKeepsInput ==
    \A i \in Tasks : pc[i] = "done" =>
        /\ DOMAIN task_result[i] = DOMAIN rows[i] \cup NewFields
        /\ \A f \in DOMAIN rows[i] : task_result[i][f] = rows[i][f]
        /\ DOMAIN rows[i] \cap NewFields = {}

\* one batch holds a missing_data, a download_failed and a classified record
C14_Witness ==
    /\ \E i \in Tasks :
          pc[i] = "done" /\ HasMarkers(task_result[i], <<"missing_data">>)
    /\ \E i \in Tasks :
          pc[i] = "done" /\ HasMarkers(task_result[i], <<"download_failed">>)
    /\ \E i \in Tasks :
          /\ pc[i] = "done"
          /\ answers[i].post = "json"
          /\ task_result[i]["new_pred_label"] = <<"ok">>

\* The event loop runs a callback that is ready, and a request that was
\* sent is answered (with a response or with an exception): while some step
\* can be taken, one is taken.  Every run is finite, so this gives every
\* pipeline its steps.
FairSpec == Spec /\ WF_vars(Next)

\* C15: with every call answered and a fair event loop, once the pipelines
\* are launched every one of them eventually returns its result and the
\* batch goes on with one result per record.
C15_BatchCompletes ==
    (bpc = "gather") ~>
        /\ bpc \in {"write", "rmdir", "returned"}
        /\ \A i \in Tasks : pc[i] = "done"
        /\ Len(results) = Len(rows)

\* record i has an empty required field (and none that is None)
C16_MissingField(i) ==
    LET c0 == Get(rows[i], "category", EmptyStr)
        l0 == Get(rows[i], "link_img", EmptyStr)
    IN  /\ c0 # PyNone /\ l0 # PyNone
        /\ (Strip(c0) = EmptyStr \/ Strip(l0) = EmptyStr)

\* C16, as stated: a record with a missing required field never waits for a
\* gate permit.
C16_ValidationNotThrottled ==
    \A i \in Tasks : C16_MissingField(i) => pc[i] # "waiting"

\* C16, amended: validation and marker assignment run inside the gate.  A
\* pipeline that has not passed the gate returns its record only in a step
\* that starts with a free permit, and while no permit is free a waiting
\* pipeline stays waiting (or is cancelled), whatever its record.
C16_ValidationInsideGate ==
    [][\A i \in Tasks :
          /\ (pc[i] \in {"created", "waiting"} /\ pc'[i] = "done")
                 => sem_value > 0
          /\ (pc[i] = "waiting" /\ sem_value = 0)
                 => pc'[i] \in {"waiting", "cancelled"}]_vars

\* a record with an empty required field waits while the gate is full
C16_Witness ==
    \E i \in Tasks :
        /\ C16_MissingField(i)
        /\ pc[i] = "waiting"
        /\ Cardinality(Holders) = MAX_CONCURRENT_REQUESTS

\* C17: a record's pipeline makes at most one download request and at most
\* one classification request; the download request is made only for a
\* record that passed validation; the classification request is made only
\* after the download of that record succeeded (status 200, body read); and
\* the artifact stays on disk until the classification attempt has finished.
C17_SingleAttemptInOrder ==
    \A i \in Tasks :
        /\ Len(gets[i]) <= 1
        /\ Len(posts[i]) <= 1
        /\ gets[i] # <<>> =>
              /\ pc[i] \notin {"none", "created", "waiting"}
              /\ Strip(rows[i]["category"]) # EmptyStr
              /\ gets[i][1] = Strip(rows[i]["link_img"])
              /\ gets[i][1] # EmptyStr
        /\ posts[i] # <<>> =>
              /\ gets[i] # <<>>
              /\ answers[i].get = "status"
              /\ answers[i].status = 200
              /\ answers[i].read = "ok"
              /\ posts[i][1][2] = ImageFilename(i)
        /\ pc[i] = "post" =>
              /\ posts[i] # <<>>
              /\ answers[i].post = "none"
              /\ ImageFilename(i) \in files
        /\ answers[i].post # "none" => posts[i] # <<>>

\* a record went through download, classification and cleanup
C17_Witness ==
    \E i \in Tasks :
        /\ pc[i] = "done"
        /\ Len(gets[i]) = 1
        /\ Len(posts[i]) = 1
        /\ answers[i].post = "json"
        /\ ImageFilename(i) \notin files

\* C18: two distinct records of a batch get distinct artifact paths, whatever
\* their link_img (the same url, base names made of digits and underscores);
\* so an artifact on disk, or named in a classification request, belongs to
\* one pipeline only.
C18_ArtifactPathsDistinct ==
    /\ (call.fn = "image_filename" /\ call.done) => call.ret[1] # call.ret[2]
    /\ \A i \in Tasks : \A j \in Tasks :
          (i # j /\ gets[i] # <<>> /\ gets[j] # <<>>) =>
              /\ ImageFilename(i) # ImageFilename(j)
              /\ \A k \in DOMAIN posts[i] : posts[i][k][2] # ImageFilename(j)

\* the artifacts of two records with the same link_img are on disk at once
C18_Witness ==
    \E i \in Tasks : \E j \in Tasks :
        /\ i # j
        /\ pc[i] \in {"read", "post"} /\ pc[j] \in {"read", "post"}
        /\ LinkImg(i) = LinkImg(j)
        /\ {ImageFilename(i), ImageFilename(j)} \subseteq files
        /\ Cardinality(files) >= 2

\* C19: the working directory exists whenever a pipeline is fetching or
\* classifying, and process_csv tries to remove it before it returns, on
\* every return path: after a return the directory is only left when files
\* in it made the removal fail.
C19_TempDirCreatedAndRemoved ==
    /\ \A i \in Tasks : pc[i] \in {"get", "read", "post"} => dir_exists
    /\ bpc = "returned" => (dir_exists => files # {})

\* C20: at most MAX_CONCURRENT_REQUESTS artifact files are in the working
\* directory, in every state of a batch run.
C20_ArtifactsBoundedByLimit ==
    Cardinality(files) <= MAX_CONCURRENT_REQUESTS

====
